---- MODULE Spec2Model ----
(***************************************************************************)
(* Model of tasks/ubuntu.py: the padding helpers (pad_3d_sequence,         *)
(* pad_graph), the batch generator sample_pairs, and the UbuntuTask        *)
(* adapter (load_vocab, load_set, eval, res_columns).                      *)
(*                                                                         *)
(* Python lists are TLA+ sequences (index k of the source is k+1 here).    *)
(* The module is written for Python 2 and 3 (lines 36-44): py3 says which  *)
(* interpreter runs it. range() is a list under Python 2 and an immutable  *)
(* range object under Python 3.                                            *)
(***************************************************************************)
EXTENDS Integers, Sequences, FiniteSets, TLC

VARIABLES
    \* one call of pad_3d_sequence(seqs, maxlen, nd)
    seqs, maxlen, nd, pseqs, pi, ppc,
    \* one generator made by sample_pairs(gr, batch_size, s0pad, s1pad, once)
    gr, batch_size, s0pad, s1pad, once, py3, ids, pos, gpc, ogr, npass, gr0,
    \* one UbuntuTask object and the results of the calls made on it
    vocab, attr, tpc, arg, ret, predicted, lastv

padVars  == <<seqs, maxlen, nd, pseqs, pi, ppc>>
genVars  == <<gr, batch_size, s0pad, s1pad, once, py3, ids, pos, gpc, ogr, npass,
             gr0>>
taskVars == <<vocab, attr, tpc, arg, ret, predicted, lastv>>
vars     == <<padVars, genVars, taskVars>>

(***************************************************************************)
(* Bounds of the model.                                                    *)
(***************************************************************************)
MaxSeqs == 2
MaxSeqLen == 3
MaxLen == 3
MaxNd == 2
MaxVal == 2
MaxN == 5
MaxBatch == 3
MaxPad == 2
MaxPass == 2
FlagsDim == 1

Min(a, b) == IF a < b THEN a ELSE b
Max(a, b) == IF a > b THEN a ELSE b

\* All sequences over S of length lo..hi.
SeqsOf(S, lo, hi) == UNION {[1..n -> S] : n \in lo..hi}

(***************************************************************************)
(* Python and numpy primitives used by the source.                         *)
(***************************************************************************)
\* lst[a:b] for 0 <= a <= b: the bounds are clamped to the list.
PySlice(lst, a, b) == SubSeq(lst, Min(a, Len(lst)) + 1, Min(b, Len(lst)))

\* lst[-n:] for n >= 0: the last n items, but -0 is 0, so lst[-0:] is lst[0:].
PyLast(lst, n) ==
    IF n = 0 THEN lst ELSE SubSeq(lst, Max(Len(lst) - n, 0) + 1, Len(lst))

\* np.array(list of vectors of width w).shape: a list of k vectors is (k, w),
\* the empty list is the one-dimensional (0,).
ArrayShape(lst, w) == IF Len(lst) = 0 THEN <<0>> ELSE <<Len(lst), w>>

\* numpy's rule for  dst[...] = src : the shapes are aligned at their last
\* dimension and every dimension of src equals dst's or is 1.
CanBroadcast(src, dst) ==
    /\ Len(src) <= Len(dst)
    /\ \A j \in 1..Len(src) :
          LET s == src[j]
              d == dst[Len(dst) - Len(src) + j]
          IN  s = d \/ s = 1

ZeroVec(w) == [j \in 1..w |-> 0]
ZeroRow(len, w) == [p \in 1..len |-> ZeroVec(w)]

(***************************************************************************)
(* pad_3d_sequence                                                         *)
(***************************************************************************)
\* line 58: trunc = np.array(seq[-maxlen:], dtype=dtype)
Trunc(seq, mlen) == PyLast(seq, mlen)

\* line 59: the assignment pseqs[i, :trunc.shape[0]] = trunc raises ValueError
\* when trunc does not broadcast into the slice of the row.
RowRaises(seq, mlen, w) ==
    LET trunc == Trunc(seq, mlen)
        dst == <<Min(Len(trunc), mlen), w>>
    IN  ~CanBroadcast(ArrayShape(trunc, w), dst)

\* line 59 when it does not raise: row i after the assignment.
RowAssign(row, seq, mlen, w) ==
    LET trunc == Trunc(seq, mlen)
        k == Min(Len(trunc), mlen)
    IN  [p \in 1..Len(row) |-> IF p <= k /\ Len(trunc) = k THEN trunc[p] ELSE row[p]]

\* pad_3d_sequence as a function, for its callers: whether it raises, and what
\* it returns when it does not.
pad_3d_raises(ss, mlen, w) == \E i \in 1..Len(ss) : RowRaises(ss[i], mlen, w)

pad_3d_sequence(ss, mlen, w) ==
    [i \in 1..Len(ss) |-> RowAssign(ZeroRow(mlen, w), ss[i], mlen, w)]

\* The call as steps. line 56: pseqs = np.zeros((len(seqs), maxlen, nd))
Vecs(w) == [1..w -> 1..MaxVal]

InitPad ==
    /\ nd \in 0..MaxNd
    /\ maxlen \in 0..MaxLen
    /\ seqs \in SeqsOf(SeqsOf(Vecs(nd), 0, MaxSeqLen), 0, MaxSeqs)
    /\ pseqs = [i \in 1..Len(seqs) |-> ZeroRow(maxlen, nd)]
    /\ pi = 1
    /\ ppc = "loop"

\* lines 57-59: one iteration of the loop over the sequences
PadRow ==
    /\ ppc = "loop"
    /\ pi <= Len(seqs)
    /\ IF RowRaises(seqs[pi], maxlen, nd)
       THEN /\ ppc' = "ValueError"
            /\ UNCHANGED <<pseqs, pi>>
       ELSE /\ pseqs' = [pseqs EXCEPT ![pi] = RowAssign(@, seqs[pi], maxlen, nd)]
            /\ pi' = pi + 1
            /\ ppc' = "loop"
    /\ UNCHANGED <<seqs, maxlen, nd>>
    /\ UNCHANGED <<genVars, taskVars>>

\* line 60: return pseqs
PadReturn ==
    /\ ppc = "loop"
    /\ pi > Len(seqs)
    /\ ppc' = "returned"
    /\ UNCHANGED <<seqs, maxlen, nd, pseqs, pi>>
    /\ UNCHANGED <<genVars, taskVars>>

PadIdle ==
    /\ seqs = <<>> /\ maxlen = 0 /\ nd = 0 /\ pseqs = <<>> /\ pi = 1
    /\ ppc = "idle"

(***************************************************************************)
(* pad_graph                                                               *)
(***************************************************************************)
\* keras pad_sequences(seqs, maxlen=n, truncating='pre', padding='post') for
\* n >= 1: the last n tokens of each sequence, then zeros; an empty sequence
\* is skipped and leaves a row of zeros.
pad_sequences(ss, n) ==
    [i \in 1..Len(ss) |->
        LET trunc == PyLast(ss[i], n)
        IN  [p \in 1..n |-> IF p <= Len(trunc) THEN trunc[p] ELSE 0]]

\* lines 65-69, the entries of the mapping after the call
pad_graph(g, p0, p1) ==
    [si0   |-> pad_sequences(g.si0, p0),
     si1   |-> pad_sequences(g.si1, p1),
     f0    |-> pad_3d_sequence(g.f0, p0, FlagsDim),
     f1    |-> pad_3d_sequence(g.f1, p1, FlagsDim),
     score |-> g.score]

\* lines 67-68: the call raises when one of its pad_3d_sequence calls does
pad_graph_raises(g, p0, p1) ==
    \/ pad_3d_raises(g.f0, p0, FlagsDim)
    \/ pad_3d_raises(g.f1, p1, FlagsDim)

(***************************************************************************)
(* sample_pairs                                                            *)
(***************************************************************************)
\* The datasets the generator is run on: sample k (k = 0 .. n-1) has a
\* response of 1 + k % MaxSeqLen tokens and a context of as many, or an empty
\* context when k is in `empties`. Tokens name their sample and position, and
\* every token has one feature vector.
Tok(side, k, p) == 100 * (k + 1) + 10 * side + p
Feat(t) == [j \in 1..FlagsDim |-> t]
NatLen(k) == 1 + (k % MaxSeqLen)
Len0(k, empties) == IF k \in empties THEN 0 ELSE NatLen(k)

Dataset(n, empties) ==
    [si0   |-> [i \in 1..n |-> [p \in 1..Len0(i - 1, empties) |-> Tok(0, i - 1, p)]],
     si1   |-> [i \in 1..n |-> [p \in 1..NatLen(i - 1) |-> Tok(1, i - 1, p)]],
     f0    |-> [i \in 1..n |-> [p \in 1..Len0(i - 1, empties) |-> Feat(Tok(0, i - 1, p))]],
     f1    |-> [i \in 1..n |-> [p \in 1..NatLen(i - 1) |-> Feat(Tok(1, i - 1, p))]],
     score |-> [i \in 1..n |-> (i - 1) % 2]]

NoGraph == [si0 |-> <<>>, si1 |-> <<>>, f0 |-> <<>>, f1 |-> <<>>, score |-> <<>>]

\* pysts.kerasts.graph_input_slice(gr, sl): a new mapping holding v[sl] for
\* every entry v of gr
graph_input_slice(g, a, b) ==
    [si0   |-> PySlice(g.si0, a, b),
     si1   |-> PySlice(g.si1, a, b),
     f0    |-> PySlice(g.f0, a, b),
     f1    |-> PySlice(g.f1, a, b),
     score |-> PySlice(g.score, a, b)]

\* line 76: int(len(gr['si0']) / batch_size), a true division truncated
BlockCountCeil(n, bs) == (n + bs - 1) \div bs
BlockCount(n, bs) == n \div bs

\* line 76: ids = range(...), the list [0, 1, ..., count-1]
Range(count) == [j \in 1..count |-> j - 1]

\* line 78: random.shuffle(ids) swaps items in place (x[i], x[j] = x[j], x[i])
\* when there are two or more; a Python 3 range object refuses the assignment
\* with TypeError
ShuffleRaises(lst, python3) == python3 /\ Len(lst) >= 2

\* line 78: random.shuffle(ids) leaves any permutation of the list
Shuffles(lst) ==
    {[j \in 1..Len(lst) |-> lst[f[j]]] : f \in Permutations(1..Len(lst))}

\* line 80: sl = slice(i * batch_size, (i+1) * batch_size)
SliceStart(i, bs) == i * bs
SliceStop(i, bs) == (i + 1) * bs

\* line 83: the mapping pad_graph is called on, the fresh slice ogr
PaddedMappingGr == "gr"
PaddedMapping == "ogr"

InitGen ==
    /\ \E n \in 0..MaxN : \E empties \in SUBSET (0..(n - 1)) :
          gr = Dataset(n, empties)
    /\ batch_size \in 1..MaxBatch
    /\ s0pad \in 1..MaxPad
    /\ s1pad \in 1..MaxPad
    /\ once \in BOOLEAN
    /\ py3 \in BOOLEAN
    /\ ids = <<>>
    /\ pos = 0
    /\ gpc = "created"
    /\ ogr = NoGraph
    /\ npass = 1
    /\ gr0 = gr

\* The consumer asks for the next batch: the first next() runs line 76 and
\* enters the while loop, a later one resumes after the yield of line 84.
Pull ==
    /\ gpc \in {"created", "yield"}
    /\ IF gpc = "created"
       THEN /\ ids' = Range(BlockCount(Len(gr.si0), batch_size))
            /\ gpc' = "while"
       ELSE /\ ids' = ids
            /\ gpc' = "for"
    /\ UNCHANGED <<gr, batch_size, s0pad, s1pad, once, py3, pos, ogr, npass, gr0>>
    /\ UNCHANGED <<padVars, taskVars>>

\* lines 77-78: a pass starts by shuffling the block ids, which ends the
\* generator with TypeError when the shuffle raises
Shuffle ==
    /\ gpc = "while"
    /\ IF ShuffleRaises(ids, py3)
       THEN /\ gpc' = "TypeError"
            /\ UNCHANGED <<ids, pos>>
       ELSE /\ ids' \in Shuffles(ids)
            /\ pos' = 0
            /\ gpc' = "for"
    /\ UNCHANGED <<gr, batch_size, s0pad, s1pad, once, py3, ogr, npass, gr0>>
    /\ UNCHANGED <<padVars, taskVars>>

\* lines 79-84: the next block is sliced, padded and yielded, unless the
\* padding raises, which ends the generator with the exception
ForStep ==
    /\ gpc = "for"
    /\ pos < Len(ids)
    /\ LET i == ids[pos + 1]
           sliced == graph_input_slice(gr, SliceStart(i, batch_size),
                                       SliceStop(i, batch_size))
           target == IF PaddedMapping = "ogr" THEN sliced ELSE gr
       IN  IF pad_graph_raises(target, s0pad, s1pad)
           THEN /\ gpc' = "ValueError"
                /\ UNCHANGED <<gr, ogr, pos>>
           ELSE /\ gr' = IF PaddedMapping = "ogr" THEN gr
                         ELSE pad_graph(target, s0pad, s1pad)
                /\ ogr' = IF PaddedMapping = "ogr"
                          THEN pad_graph(target, s0pad, s1pad) ELSE sliced
                /\ pos' = pos + 1
                /\ gpc' = "yield"
    /\ UNCHANGED <<batch_size, s0pad, s1pad, once, py3, ids, npass, gr0>>
    /\ UNCHANGED <<padVars, taskVars>>

\* lines 79, 85-86: the for loop is exhausted; with once the generator ends,
\* otherwise the while loop starts the next pass
ForEnd ==
    /\ gpc = "for"
    /\ pos = Len(ids)
    /\ IF once
       THEN /\ gpc' = "done"
            /\ npass' = npass
       ELSE /\ gpc' = "while"
            /\ npass' = Min(npass + 1, MaxPass)
    /\ UNCHANGED <<gr, batch_size, s0pad, s1pad, once, py3, ids, pos, ogr, gr0>>
    /\ UNCHANGED <<padVars, taskVars>>

GenIdle ==
    /\ gr = NoGraph /\ batch_size = 1 /\ s0pad = 1 /\ s1pad = 1 /\ once = TRUE
    /\ py3 = FALSE
    /\ ids = <<>> /\ pos = 0 /\ gpc = "idle" /\ ogr = NoGraph /\ npass = 1
    /\ gr0 = NoGraph

GenStep == Shuffle \/ ForStep \/ ForEnd

(***************************************************************************)
(* UbuntuTask                                                              *)
(***************************************************************************)
\* None is the string "None"; an attribute the object does not have is
\* "unset" (reading it raises AttributeError).
SetFiles == {"train.pickle", "val.pickle", "test.pickle"}
VocabFiles == {"vocab1.pickle", "vocab2.pickle"}
Splits == <<"gr", "grv", "grt">>
FNames == <<"trainf", "valf", "testf">>
AttrNames == {"gr", "grv", "grt", "trainf", "valf", "testf"}

\* What unpickling a file gives: a set file holds the tuple
\* (si0, si1, f0, f1, labels), a vocabulary file a vocabulary; any other
\* file makes the load raise.
Readable(fname) == fname \in SetFiles
Unpickle(fname) ==
    [si0 |-> <<fname, "si0">>, si1 |-> <<fname, "si1">>, f0 |-> <<fname, "f0">>,
     f1 |-> <<fname, "f1">>, labels |-> <<fname, "labels">>]
UnpickleVocab(vocabf) == IF vocabf = "vocab1.pickle" THEN "vocab1" ELSE "vocab2"

\* pysts.kerasts.graph_input_anssel(si0, si1, y, f0, f1): the mapping of the
\* pair examples
graph_input_anssel(si0, si1, y, f0, f1) ==
    [si0 |-> si0, si1 |-> si1, score |-> y, f0 |-> f0, f1 |-> f1]

\* lines 90-95: __init__ sets name, s0pad, s1pad, emb and vocab, and none of
\* gr, grv, grt, trainf, valf, testf
InitTask ==
    /\ vocab = "None"
    /\ attr = [a \in AttrNames |-> "unset"]
    /\ tpc = "constructed"
    /\ arg = "None"
    /\ ret = "None"
    /\ predicted = {}
    /\ lastv = "None"

\* line 110: what self.vocab holds after load_vocab unpickled `loaded`
StoredVocabKept(old, loaded) == old
StoredVocab(old, loaded) == loaded

\* lines 108-111
load_vocab(vocabf) ==
    /\ vocab' = StoredVocab(vocab, UnpickleVocab(vocabf))
    /\ ret' = vocab'
    /\ arg' = vocabf
    /\ lastv' = vocabf
    /\ tpc' = "load_vocab"
    /\ UNCHANGED <<attr, predicted>>
    /\ UNCHANGED <<padVars, genVars>>

\* line 106: the third element of load_set's result
ReturnedVocab(v) == v

\* lines 103-106
load_set(fname) ==
    /\ arg' = fname
    /\ IF Readable(fname)
       THEN LET t == Unpickle(fname)
                g == graph_input_anssel(t.si0, t.si1, t.labels, t.f0, t.f1)
            IN  /\ ret' = <<g, t.labels, ReturnedVocab(vocab)>>
                /\ tpc' = "load_set"
       ELSE /\ ret' = "None"
            /\ tpc' = "load_set:IOError"
    /\ UNCHANGED <<vocab, attr, predicted, lastv>>
    /\ UNCHANGED <<padVars, genVars>>

\* The harness loads the splits: each of the three is loaded from its file or
\* left unloaded (None).
load_data(trainf, valf, testf) ==
    /\ attr' = [gr |-> trainf, grv |-> valf, grt |-> testf,
                trainf |-> trainf, valf |-> valf, testf |-> testf]
    /\ arg' = <<trainf, valf, testf>>
    /\ ret' = "None"
    /\ tpc' = "load_data"
    /\ UNCHANGED <<vocab, predicted, lastv>>
    /\ UNCHANGED <<padVars, genVars>>

\* lines 123-124: the metrics of one split, computed by ev.eval_ubuntu from the
\* model's predictions on the split's dataset and the split's file name
NoneEntry == [kind |-> "None", gr |-> "None", fname |-> "None"]
Metrics(g, fname) == [kind |-> "metrics", gr |-> g, fname |-> fname]

\* lines 117-125. Line 119 reads the six attributes before the loop starts.
eval ==
    /\ arg' = "model"
    /\ IF \E a \in AttrNames : attr[a] = "unset"
       THEN /\ tpc' = "eval:AttributeError"
            /\ ret' = "None"
            /\ predicted' = {}
       ELSE /\ tpc' = "eval"
            /\ ret' = [j \in 1..3 |->
                         IF attr[Splits[j]] = "None" THEN NoneEntry
                         ELSE Metrics(attr[Splits[j]], attr[FNames[j]])]
            /\ predicted' = {Splits[j] : j \in {k \in 1..3 : attr[Splits[k]] # "None"}}
    /\ UNCHANGED <<vocab, attr, lastv>>
    /\ UNCHANGED <<padVars, genVars>>

\* line 130: the format string, as its conversions and its literal pieces
Template ==
    <<"%c", "%.6f", "   |", "%c", "%.6f", "     |", "%c", "%.6f", "   |",
      "%c", "%.6f", "   |", "%c", "%.6f", "    |", "%c", "%.6f", "  |",
      "%c", "%.6f", "   ">>
IsConversion(piece) == piece \in {"%c", "%.6f"}
Conversions == SelectSeq(Template, IsConversion)

\* lines 131-138: the metric each value of the argument tuple reads, as
\* <<file attribute, key, whether a missing key raises (subscript) or
\* defaults to nan (.get)>>
Lookups ==
    <<<<"trainf", "MRR", TRUE>>, <<"trainf", "2R_1", TRUE>>,
      <<"valf", "MRR", TRUE>>, <<"valf", "R2_1", TRUE>>, <<"valf", "R10_2", TRUE>>,
      <<"testf", "MAP", FALSE>>, <<"testf", "R2_1", FALSE>>,
      <<"testf", "R10_2", FALSE>>>>

\* The metric values are in ten-millionths; nan is -1.
MetricValue(key) ==
    CASE key = "MRR" -> 7654321
      [] key = "MAP" -> 6543215
      [] OTHER -> 5000004

\* "%.6f" % v rounds to six decimals (here: to millionths)
Format6f(v) == IF v < 0 THEN -1 ELSE (v + 5) \div 10

\* The argument tuple of the % operator: pfx and a value for every lookup
FormatArgs(mres, files, pfx) ==
    [j \in 1..(2 * Len(Lookups)) |->
        IF j % 2 = 1 THEN pfx
        ELSE LET l == Lookups[j \div 2]
                 f == files[l[1]]
             IN  IF l[2] \in mres[f] THEN MetricValue(l[2]) ELSE -1]

\* str % tuple: TypeError unless there is one argument for every conversion
FormatRaises(convs, args) == Len(convs) # Len(args)
Format(template, args) ==
    [j \in 1..Len(template) |->
        LET n == Cardinality({k \in 1..j : IsConversion(template[k])})
        IN  IF template[j] = "%c" THEN <<"c", args[n]>>
            ELSE IF template[j] = "%.6f" THEN <<"f", Format6f(args[n])>>
            ELSE <<"s", template[j]>>]

KeySets ==
    {{"MRR", "R2_1", "R10_1", "R10_2", "R10_5"},
     {"MRR", "R2_1", "R10_1", "R10_2", "R10_5", "2R_1", "MAP"}}

\* lines 127-138
res_columns(mres, pfx) ==
    /\ arg' = mres
    /\ IF \E a \in {"trainf", "valf", "testf"} : attr[a] = "unset"
       THEN /\ tpc' = "res_columns:AttributeError"
            /\ ret' = "None"
       ELSE IF \/ \E a \in {"trainf", "valf", "testf"} : attr[a] \notin DOMAIN mres
               \/ \E j \in 1..Len(Lookups) :
                     /\ Lookups[j][3]
                     /\ Lookups[j][2] \notin mres[attr[Lookups[j][1]]]
       THEN /\ tpc' = "res_columns:KeyError"
            /\ ret' = "None"
       ELSE IF FormatRaises(Conversions, FormatArgs(mres, attr, pfx))
       THEN /\ tpc' = "res_columns:TypeError"
            /\ ret' = "None"
       ELSE /\ tpc' = "res_columns"
            /\ ret' = Format(Template, FormatArgs(mres, attr, pfx))
    /\ UNCHANGED <<vocab, attr, predicted, lastv>>
    /\ UNCHANGED <<padVars, genVars>>

TaskIdle ==
    /\ vocab = "None" /\ attr = [a \in AttrNames |-> "unset"] /\ tpc = "idle"
    /\ arg = "None" /\ ret = "None" /\ predicted = {} /\ lastv = "None"

(***************************************************************************)
(* Specifications                                                          *)
(***************************************************************************)
\* One call of pad_3d_sequence on any input within the bounds.
InitPadCall == InitPad /\ GenIdle /\ TaskIdle
NextPad == PadRow \/ PadReturn
SpecPad == InitPadCall /\ [][NextPad]_vars

\* One generator made by sample_pairs and pulled by its consumer.
InitGenerator == PadIdle /\ InitGen /\ TaskIdle
NextGen == Pull \/ Shuffle \/ ForStep \/ ForEnd
SpecGen == InitGenerator /\ [][NextGen]_vars
\* Once asked for a batch the generator runs: its steps are never postponed
\* forever. The consumer may stop asking at any yield.
FairGen == SpecGen /\ WF_vars(GenStep)

\* One UbuntuTask object and any sequence of calls of its methods.
InitTaskObject == PadIdle /\ GenIdle /\ InitTask
NextTask ==
    \/ \E vocabf \in VocabFiles : load_vocab(vocabf)
    \/ \E fname \in SetFiles \cup {"missing.pickle"} : load_set(fname)
    \/ \E trainf \in {"train.pickle", "None"}, valf \in {"val.pickle", "None"},
          testf \in {"test.pickle", "None"} : load_data(trainf, valf, testf)
    \/ eval
    \/ \E S \in SUBSET SetFiles : \E mres \in [S -> KeySets] :
          res_columns(mres, " ")
SpecTask == InitTaskObject /\ [][NextTask]_vars

(***************************************************************************)
(* Properties                                                              *)
(***************************************************************************)
\* The padding the documentation describes, stated on its own: the last
\* min(Len(seq), n) items of seq from position 1 on, then `zero` up to n.
PadLast(seq, n, zero) ==
    LET m == Min(Len(seq), n)
    IN  [p \in 1..n |-> IF p <= m THEN seq[Len(seq) - m + p] ELSE zero]

\* C2: for every collection of sequences and every max_length,
\* pad_3d_sequence returns (it does not raise) a tensor of shape
\* (N, max_length, feature_dim) whose row i is the last
\* min(len(seq_i), max_length) tokens of sequence i, then zero vectors.
\* Stated for max_length >= 1 and feature_dim >= 1.
C2_PadKeepsLastTokens ==
    (maxlen >= 1 /\ nd >= 1) =>
        /\ ppc # "ValueError"
        /\ ppc = "returned" =>
              /\ Len(pseqs) = Len(seqs)
              /\ \A i \in 1..Len(seqs) :
                    pseqs[i] = PadLast(seqs[i], maxlen, ZeroVec(nd))

\* C8: an empty sequence makes pad_3d_sequence raise no exception, and its
\* row of the output is all zeros. Stated for max_length >= 1 and
\* feature_dim >= 1.
C8_EmptySequenceNoException ==
    (maxlen >= 1 /\ nd >= 1) =>
        /\ ppc = "ValueError" => seqs[pi] # <<>>
        /\ ppc = "returned" =>
              \A i \in 1..Len(seqs) :
                  seqs[i] = <<>> => pseqs[i] = ZeroRow(maxlen, nd)

\* The number of samples, of blocks, and the batch that block b stands for:
\* the samples b*batch_size .. (b+1)*batch_size-1 of the source dataset as it
\* was when the generator was made, in dataset order, each padded on its own.
NSamples == Len(gr0.si0)
NBlocks == NSamples \div batch_size
BlockSamples(b) == [j \in 1..batch_size |-> b * batch_size + j]
ExpectedBatch(b) ==
    [si0   |-> [j \in 1..batch_size |-> PadLast(gr0.si0[BlockSamples(b)[j]], s0pad, 0)],
     si1   |-> [j \in 1..batch_size |-> PadLast(gr0.si1[BlockSamples(b)[j]], s1pad, 0)],
     f0    |-> [j \in 1..batch_size |->
                   PadLast(gr0.f0[BlockSamples(b)[j]], s0pad, ZeroVec(FlagsDim))],
     f1    |-> [j \in 1..batch_size |->
                   PadLast(gr0.f1[BlockSamples(b)[j]], s1pad, ZeroVec(FlagsDim))],
     score |-> [j \in 1..batch_size |-> gr0.score[BlockSamples(b)[j]]]]
YieldedThisPass == {ids[j] : j \in 1..pos}

\* C1: with once=True the generator yields exactly floor(N/batch_size)
\* batches and then stops; every batch holds batch_size samples and the blocks
\* yielded are the blocks 0 .. floor(N/batch_size)-1. Stated for Python 2,
\* where the shuffle cannot raise.
C1_OnceYieldsFloorBatches ==
    (once /\ ~py3 /\ gpc # "idle") =>
        /\ gpc \notin {"ValueError", "TypeError"}
        /\ gpc = "yield" =>
              /\ Len(ogr.si0) = batch_size
              /\ ogr = ExpectedBatch(ids[pos])
        /\ gpc = "done" =>
              /\ pos = NBlocks
              /\ YieldedThisPass = 0..(NBlocks - 1)

\* C3: with once=False the generator is never exhausted and every pull is
\* answered by a yielded batch; stated for the runs in which nothing can
\* raise (Python 2, no empty sequence in the dataset).
C3_EveryPullAnswered ==
    /\ [](~once => gpc # "done")
    /\ []((/\ ~once
           /\ ~py3
           /\ gpc \in {"while", "for"}
           /\ \A i \in 1..Len(gr.f0) : gr.f0[i] # <<>>) => <>(gpc = "yield"))

\* C4: in every pass every block is yielded exactly once, and block b is
\* always the contiguous samples b*batch_size .. (b+1)*batch_size-1. Stated
\* for Python 2, where the shuffle cannot raise.
C4_EachPassYieldsEveryBlockOnce ==
    (~py3 /\ gpc # "idle") =>
        /\ gpc \notin {"ValueError", "TypeError"}
        /\ gpc = "yield" => ogr = ExpectedBatch(ids[pos])
        /\ (gpc = "for" /\ pos = Len(ids)) =>
              /\ pos = NBlocks
              /\ YieldedThisPass = 0..(NBlocks - 1)

\* C5: no sample whose index is >= floor(N/batch_size)*batch_size is part of a
\* yielded batch, in any pass.
C5_RemainderNeverEmitted ==
    gpc = "yield" =>
        \A k \in (NBlocks * batch_size + 1)..NSamples :
            \A j \in 1..Len(ogr.si1) :
                /\ ogr.si1[j] # PadLast(gr0.si1[k], s1pad, 0)
                /\ ogr.f1[j] # PadLast(gr0.f1[k], s1pad, ZeroVec(FlagsDim))

\* C5 witness: five samples in blocks of two, a whole second pass yielded.
C5_Witness ==
    /\ gpc = "yield" /\ ~once /\ npass = 2 /\ pos = Len(ids)
    /\ NSamples = 5 /\ batch_size = 2

\* C9: the source dataset is never changed by the generator, and a yielded
\* batch is the padding of the samples of its own block only.
C9_SourceUnchangedBatchFromOwnBlock ==
    gpc # "idle" =>
        /\ gr = gr0
        /\ gpc = "yield" => ogr = ExpectedBatch(ids[pos])

\* C9 witness: a batch of the second pass whose padding changed the slice
\* (a sequence was cut or filled), after other batches were yielded.
C9_Witness ==
    /\ gpc = "yield" /\ npass = 2 /\ pos >= 2
    /\ ogr # graph_input_slice(gr, SliceStart(ids[pos], batch_size),
                               SliceStop(ids[pos], batch_size))
    /\ \E i \in 1..NSamples : Len(gr.si0[i]) > s0pad

Loaded(j) == attr[Splits[j]] \notin {"unset", "None"}

\* C6: for every combination of loaded and unloaded splits eval raises no
\* error and returns (train, validation, test), None exactly where the split
\* is not loaded and that split's metrics elsewhere; predict is called for
\* the loaded splits only.
C6_EvalNoneForUnloaded ==
    tpc \in {"eval", "eval:AttributeError"} =>
        /\ tpc = "eval"
        /\ \A j \in 1..3 :
              IF Loaded(j) THEN ret[j] = Metrics(attr[Splits[j]], attr[FNames[j]])
              ELSE ret[j] = NoneEntry
        /\ predicted = {Splits[j] : j \in {k \in 1..3 : Loaded(k)}}

LoadSetEnded == tpc \in {"load_set", "load_set:IOError"}
\* The dataset load_set assembles from the tuple of the file: line 105 hands
\* the labels over third, the features fourth and fifth.
Assembled(fname) ==
    graph_input_anssel(Unpickle(fname).si0, Unpickle(fname).si1,
                       Unpickle(fname).labels, Unpickle(fname).f0,
                       Unpickle(fname).f1)

\* C7 as stated: load_set fails on a task on which load_vocab was never
\* called, and after load_vocab returns the dataset, the labels and the
\* vocabulary of the most recent load_vocab.
C7_LoadSetFailsWithoutVocab ==
    (LoadSetEnded /\ Readable(arg)) =>
        IF lastv = "None" THEN tpc # "load_set"
        ELSE /\ tpc = "load_set"
             /\ ret = <<Assembled(arg), <<arg, "labels">>, UnpickleVocab(lastv)>>

\* C7 amended: load_set of a readable file never fails; it returns the
\* dataset, the labels and the vocabulary of the most recent load_vocab, or
\* None when load_vocab was never called.
C7_LoadSetReturnsStoredVocab ==
    (LoadSetEnded /\ Readable(arg)) =>
        /\ tpc = "load_set"
        /\ ret = <<Assembled(arg), <<arg, "labels">>,
                   IF lastv = "None" THEN "None" ELSE UnpickleVocab(lastv)>>

\* C7 witness: load_set returned on a task on which load_vocab was never
\* called.
C7_Witness == tpc = "load_set" /\ lastv = "None" /\ ret[3] = "None"

ResColumnsEnded ==
    tpc \in {"res_columns", "res_columns:AttributeError", "res_columns:KeyError",
             "res_columns:TypeError"}
EvalKeys == {"MRR", "R2_1", "R10_1", "R10_2", "R10_5"}

\* C10: given a metrics mapping with an entry for each of the three file
\* names holding the ranking metrics, res_columns raises no error and returns
\* one prefixed 6-decimal value for each metric it selects.
C10_ResColumnsFormatsRow ==
    (/\ ResColumnsEnded
     /\ \A a \in {"trainf", "valf", "testf"} : attr[a] \in SetFiles
     /\ \A a \in {"trainf", "valf", "testf"} :
           attr[a] \in DOMAIN arg /\ EvalKeys \subseteq arg[attr[a]]) =>
        /\ tpc = "res_columns"
        /\ Len(SelectSeq(ret, LAMBDA x : x[1] = "f")) = Len(Lookups)
        /\ Len(SelectSeq(ret, LAMBDA x : x[1] = "c")) = Len(Lookups)

====
